---- MODULE Spec2Model ----
(***************************************************************************)
(* A model of the viadot connectors:                                       *)
(*   src/src/viadot/sources/sharepoint.py  (document connector)            *)
(*   src/src/viadot/orchestration/prefect/tasks/mindful.py (feedback tasks)*)
(*                                                                         *)
(* One behaviour is one call of one operation: it starts in pc = "idle",   *)
(* a Call action draws the arguments, the following actions are the steps  *)
(* of the code, and the behaviour ends in pc = "done" with `outcome`       *)
(* holding what the caller sees (a returned value or a raised error).      *)
(***************************************************************************)
EXTENDS Integers, Sequences, FiniteSets, TLC

VARIABLES
    pc,          \* position in the running operation
    args,        \* the arguments of the call
    conn,        \* the sharepy session of this call: "none", "open", "closed"
    requests,    \* the requests issued to the document platform, in order
    excel_file,  \* to_df: what _download_excel returned
    df,          \* to_df: the table being assembled
    parse_calls, \* to_df: the calls of excel_file.parse, in order
    outcome,     \* what the caller sees
    lookups,     \* credential lookups performed (by the current attempt), in order
    credentials, \* the credentials in use and the source they came from
    runs,        \* task engine: how many times the task body was started
    clock,       \* task engine: time in seconds
    attempts,    \* task engine: one record per finished run of the body
    fs,          \* local filesystem: the set of existing directories and files
    fs0          \* the filesystem when the operation was called

vars == <<pc, args, conn, requests, excel_file, df, parse_calls, outcome,
          lookups, credentials, runs, clock, attempts, fs, fs0>>

spVars == <<conn, requests, excel_file, df, parse_calls>>
taskVars == <<runs, clock, attempts>>
fsVars == <<fs, fs0>>
credVars == <<lookups, credentials>>

----------------------------------------------------------------------------
(* Bounds of the model *)

MaxSegs == 2      \* path parts of a URL
MaxSheets == 2    \* sheets of a workbook
MaxRows == 2      \* data rows of a workbook, all sheets together
MaxBodyTime == 1  \* seconds one run of a task body may take
MaxDepth == 2     \* components of an output path given by the caller

----------------------------------------------------------------------------
(* Generic helpers *)

Range(s) == {s[i] : i \in 1..Len(s)}

SeqsUpTo(S, n) == UNION {[1..k -> S] : k \in 0..n}

RECURSIVE Flatten(_)
Flatten(ss) == IF ss = <<>> THEN <<>> ELSE Head(ss) \o Flatten(Tail(ss))

RECURSIVE SumSeq(_)
SumSeq(s) == IF s = <<>> THEN 0 ELSE Head(s) + SumSeq(Tail(s))

NoOutcome == [kind |-> "none"]
Raised(e) == [kind |-> "raised", error |-> e]
Returned(v) == [kind |-> "returned", value |-> v]

----------------------------------------------------------------------------
(* Names.  A file or directory name is a sequence of tokens; the token "."  *)
(* is a dot, every other token is a run of characters holding no dot.       *)

Dot == "."

LastDot(name) ==
    IF \E i \in 1..Len(name) : name[i] = Dot
    THEN CHOOSE i \in 1..Len(name) :
            /\ name[i] = Dot
            /\ \A j \in (i + 1)..Len(name) : name[j] # Dot
    ELSE 0

(* os.path.splitext(name)[1]: the text from the last dot on, unless only    *)
(* dots precede that dot.                                                   *)
SplitExt(name) ==
    LET d == LastDot(name)
    IN  IF d > 0 /\ \E i \in 1..(d - 1) : name[i] # Dot
        THEN SubSeq(name, d, Len(name))
        ELSE <<>>

XlsxExt == <<Dot, "xlsx">>

(* The path parts of the URLs of the model: urlparse(url).path.split("/").  *)
Segments ==
    { <<>>,
      <<"reports">>,
      <<"report", Dot, "xlsx">>,
      <<"data", Dot, "csv">>,
      <<Dot, "xlsx">>,
      <<"report", Dot>> }

Urls == SeqsUpTo(Segments, MaxSegs)

NonEmptyParts(url) == SelectSeq(url, LAMBDA part : part # <<>>)

(* get_last_segment_from_url *)
get_last_segment_from_url(url) ==
    LET parts == NonEmptyParts(url)
    IN  IF parts # <<>>
        THEN LET last_part == parts[Len(parts)]
                 extension == SplitExt(last_part)
             IN  IF extension # <<>>
                 THEN [ok |-> TRUE, value |-> extension, type |-> "file"]
                 ELSE [ok |-> TRUE, value |-> last_part, type |-> "directory"]
        ELSE [ok |-> FALSE, value |-> <<>>, type |-> "ValueError"]

----------------------------------------------------------------------------
(* Cells, sheets, workbooks and tables *)

StrCell(s) == [t |-> "str", v |-> s]
IntCell(d) == [t |-> "int", v |-> d]       \* v: the digits of the integer
FloatCell(d) == [t |-> "float", v |-> d]   \* v: the digits of the integral part
NaN == [t |-> "nan", v |-> ""]         \* float("nan")
NoneCell == [t |-> "none", v |-> ""]   \* None
NACell == [t |-> "na", v |-> ""]       \* pd.NA

IsNull(c) == c.t \in {"nan", "none", "na"}

(* What a cell of a sheet can hold in the workbooks of the model. *)
RawCells == { StrCell("NA"), StrCell("x\ty"), IntCell("7") }

SheetNameAt(i) == "S" \o ToString(i)

SheetNames == {SheetNameAt(i) : i \in 1..MaxSheets}

(* A sheet has one column, headed "v", and its data cells in row order.     *)
(* A workbook is its sheets in workbook order, the i-th named S<i>.         *)
WorkbooksOver(rowCounts) ==
    UNION { { [i \in 1..Len(rc) |-> [name |-> SheetNameAt(i), cells |-> cs[i]]] :
                cs \in { f \in [1..Len(rc) -> SeqsUpTo(RawCells, MaxRows)] :
                           \A i \in 1..Len(rc) : Len(f[i]) = rc[i] } } :
            rc \in rowCounts }

RowCounts ==
    { rc \in UNION {[1..k -> 0..MaxRows] : k \in 1..MaxSheets} :
        SumSeq(rc) <= MaxRows }

Workbooks == WorkbooksOver(RowCounts)

SmallWorkbooks ==
    { <<[name |-> SheetNameAt(1), cells |-> <<>>]>>,
      <<[name |-> SheetNameAt(1), cells |-> <<IntCell("7")>>]>> }

sheet_names(wb) == [i \in 1..Len(wb) |-> wb[i].name]

(* DEFAULT_NA_VALUES = list(STR_NA_VALUES) *)
DEFAULT_NA_VALUES ==
    { "", "#N/A", "#N/A N/A", "#NA", "-1.#IND", "-1.#QNAN", "-NaN", "-nan",
      "1.#IND", "1.#QNAN", "<NA>", "N/A", "NA", "NULL", "NaN", "None", "n/a",
      "nan", "null" }

NoneArg == [k |-> "none"]
ListArg(l) == [k |-> "list", v |-> l]
StrArg(s) == [k |-> "str", v |-> s]
IntArg(i) == [k |-> "int", v |-> i]
(* A dict: its keys, and those of its keys whose value is not empty. *)
DictArg(keys, filled) == [k |-> "dict", v |-> keys, filled |-> filled]

(* Python truthiness of an argument *)
Truthy(a) ==
    CASE a.k = "none" -> FALSE
      [] a.k = "list" -> a.v # <<>>
      [] a.k = "str" -> a.v # ""
      [] a.k = "int" -> a.v # 0
      [] a.k = "dict" -> a.v # {}

(* a or b *)
Or(a, b) == IF Truthy(a) THEN a ELSE b

EmptyFrame == [columns |-> <<>>, rows |-> <<>>, dtypes |-> <<>>]

ColumnCells(frame, c) == [i \in 1..Len(frame.rows) |-> frame.rows[i][c]]

FrameEmpty(frame) == Len(frame.rows) = 0 \/ Len(frame.columns) = 0

(* Type inference of one parsed column. *)
InferDtype(cells) ==
    IF cells = <<>> \/ \E i \in 1..Len(cells) : cells[i].t = "str"
    THEN "object"
    ELSE IF \E i \in 1..Len(cells) : cells[i].t = "nan"
         THEN "float64"
         ELSE "int64"

CastCell(c, dtype) ==
    IF dtype = "float64" /\ c.t = "int" THEN FloatCell(c.v) ELSE c

(* excel_file.parse(sheet_name=<one sheet>, keep_default_na=False,          *)
(* na_values=na): the texts in na become NaN, then the column is typed.     *)
ParseSheet(sheet, na) ==
    LET marked == [i \in 1..Len(sheet.cells) |->
                     IF sheet.cells[i].t = "str" /\ sheet.cells[i].v \in na
                     THEN NaN ELSE sheet.cells[i]]
        dtype == InferDtype(marked)
    IN  [columns |-> <<"v">>,
         rows |-> [i \in 1..Len(marked) |-> [v |-> CastCell(marked[i], dtype)]],
         dtypes |-> [v |-> dtype]]

(* frame[col] = scalar *)
SetColumn(frame, col, cell, dtype) ==
    [columns |-> IF col \in Range(frame.columns) THEN frame.columns
                 ELSE Append(frame.columns, col),
     rows |-> [i \in 1..Len(frame.rows) |->
                 [c \in Range(frame.columns) \cup {col} |->
                    IF c = col THEN cell ELSE frame.rows[i][c]]],
     dtypes |-> [c \in Range(frame.columns) \cup {col} |->
                    IF c = col THEN dtype ELSE frame.dtypes[c]]]

(* The cell and the dtype of the sheet_name column for a sheet identifier.  *)
TagCell(sel) == IF sel.k = "int" THEN IntCell(ToString(sel.v)) ELSE StrCell(sel.v)
TagDtype(sel) == IF sel.k = "int" THEN "int64" ELSE "object"

(* pd.concat(frames) of frames with the same columns: the rows in order;    *)
(* a column is float64 when its non-empty parts are int64 and float64, and  *)
(* object when they differ otherwise.                                       *)
ConcatDtype(frames, c) ==
    LET used == IF \A i \in 1..Len(frames) : frames[i].rows = <<>>
                THEN 1..Len(frames)
                ELSE {i \in 1..Len(frames) : frames[i].rows # <<>>}
        ds == {frames[i].dtypes[c] : i \in used}
    IN  IF Cardinality(ds) = 1 THEN CHOOSE d \in ds : TRUE
        ELSE IF ds \subseteq {"int64", "float64"} THEN "float64"
        ELSE "object"

Concat(frames) ==
    LET cols == frames[1].columns
        dt == [c \in Range(cols) |-> ConcatDtype(frames, c)]
        all == Flatten([i \in 1..Len(frames) |-> frames[i].rows])
    IN  [columns |-> cols,
         rows |-> [i \in 1..Len(all) |->
                     [c \in Range(cols) |-> CastCell(all[i][c], dt[c])]],
         dtypes |-> dt]


(* cleanup_df(df): df.replace(r"\n|\t", "", regex=True) *)
CleanText(s) == IF s = "x\ty" THEN "xy" ELSE s

CleanCell(c) == IF c.t = "str" THEN StrCell(CleanText(c.v)) ELSE c

cleanup_df(frame) ==
    [frame EXCEPT !.rows =
        [i \in 1..Len(frame.rows) |->
            [c \in Range(frame.columns) |-> CleanCell(frame.rows[i][c])]]]

(* str(value) *)
ToStr(c) ==
    CASE c.t = "str" -> c.v
      [] c.t = "int" -> c.v
      [] c.t = "float" -> c.v \o ".0"
      [] c.t = "nan" -> "nan"
      [] c.t = "none" -> "None"
      [] c.t = "na" -> "<NA>"

(* df.astype(str) *)
AsTypeStr(frame) ==
    [frame EXCEPT
        !.rows = [i \in 1..Len(frame.rows) |->
                    [c \in Range(frame.columns) |->
                        StrCell(ToStr(frame.rows[i][c]))]],
        !.dtypes = [c \in Range(frame.columns) |-> "object"]]

(* converted.where(pd.notnull(original), None) *)
WhereNotNull(converted, original) ==
    [converted EXCEPT !.rows =
        [i \in 1..Len(converted.rows) |->
            [c \in Range(converted.columns) |->
                IF IsNull(original.rows[i][c]) THEN NoneCell
                ELSE converted.rows[i][c]]]]

(* _empty_column_to_string *)
empty_column_to_string(frame) ==
    LET allNull(c) == \A i \in 1..Len(frame.rows) : IsNull(frame.rows[i][c])
    IN  [frame EXCEPT
           !.rows = [i \in 1..Len(frame.rows) |->
                        [c \in Range(frame.columns) |->
                            IF allNull(c) THEN NACell ELSE frame.rows[i][c]]],
           !.dtypes = [c \in Range(frame.columns) |->
                        IF allNull(c) THEN "string" ELSE frame.dtypes[c]]]

ConvertWithoutWhere(frame) == empty_column_to_string(AsTypeStr(frame))

(* _convert_all_to_string_type *)
convert_all_to_string_type(frame) ==
    empty_column_to_string(WhereNotNull(AsTypeStr(frame), frame))

(* @add_viadot_metadata_columns: the returned table gets a column naming    *)
(* the source.                                                              *)
add_viadot_metadata_columns(frame) ==
    SetColumn(frame, "_viadot_source", StrCell("Sharepoint"), "object")

----------------------------------------------------------------------------
(* to_df: the parsing branches *)

(* na_values or self.DEFAULT_NA_VALUES *)
NaUsed(na_values) ==
    IF Truthy(na_values) THEN Range(na_values.v) ELSE DEFAULT_NA_VALUES

ParseCall(sel, na) == [sheet_name |-> sel, na_values |-> na]

(* The sheet one selector names, as pandas finds it: a name by equality,    *)
(* an integer as a zero-based position.  0 when there is none.              *)
SheetIndex(wb, sel) ==
    IF sel.k = "int"
    THEN IF sel.v + 1 \in 1..Len(wb) THEN sel.v + 1 ELSE 0
    ELSE IF \E i \in 1..Len(wb) : wb[i].name = sel.v
         THEN CHOOSE i \in 1..Len(wb) : wb[i].name = sel.v
         ELSE 0

(* The else branch of to_df: every sheet, in workbook order. *)
AllSheetsReversed(wb, na) ==
    Concat([i \in 1..Len(wb) |->
              SetColumn(ParseSheet(wb[Len(wb) + 1 - i], na), "sheet_name",
                        StrCell(wb[Len(wb) + 1 - i].name), "object")])

AllSheetsFrame(wb, na) ==
    Concat([i \in 1..Len(wb) |->
              SetColumn(ParseSheet(wb[i], na), "sheet_name",
                        StrCell(wb[i].name), "object")])

AllSheetsCalls(wb, na) ==
    [i \in 1..Len(wb) |-> ParseCall(StrArg(wb[i].name), na)]

(* The `if sheet_name:` test of to_df. *)
SelectorGiven(sheet_name) == Truthy(sheet_name)

DictOfFrames == [isdict |-> TRUE]
IsDict(x) == "isdict" \in DOMAIN x

(* handle_if_empty of the Source base class *)
handle_if_empty(if_empty) ==
    CASE if_empty = "warn" -> "ok"
      [] if_empty = "skip" -> "SKIP"
      [] if_empty = "fail" -> "ValueError"

IfEmptyPolicies == {"warn", "skip", "fail"}

(* The `if df.empty:` block of to_df: what happens next. *)
EmptyGateIgnoringPolicy(frame, if_empty) == [next |-> "continue", error |-> ""]

EmptyGate(frame, if_empty) ==
    IF FrameEmpty(frame)
    THEN LET r == handle_if_empty(if_empty)
         IN  CASE r = "SKIP" -> [next |-> "return_empty", error |-> ""]
               [] r = "ok" -> [next |-> "continue", error |-> ""]
               [] OTHER -> [next |-> "raise", error |-> r]
    ELSE [next |-> "continue", error |-> ""]


----------------------------------------------------------------------------
(* The state before a call *)

Root == <<>>
Cwd == << <<"home">> >>                      \* os.getcwd()
OutDirs == { << <<"home">>, <<"out">> >>, << <<"out">> >> }

NoCredentials == [value |-> NoneArg, source |-> "none"]

Init ==
    /\ pc = "idle"
    /\ args = [op |-> "none"]
    /\ conn = "none"
    /\ requests = <<>>
    /\ excel_file = NoneArg
    /\ df = EmptyFrame
    /\ parse_calls = <<>>
    /\ outcome = NoOutcome
    /\ lookups = <<>>
    /\ credentials = NoCredentials
    /\ runs = 0
    /\ clock = 0
    /\ attempts = <<>>
    /\ fs \in {{Root, Cwd} \cup extra : extra \in SUBSET OutDirs}
    /\ fs0 = fs

Finish(o) ==
    /\ pc' = "done"
    /\ outcome' = o

----------------------------------------------------------------------------
(* Sharepoint.get_connection, download_file, _download_excel, to_df *)

Request(kind, url) == [kind |-> kind, url |-> url]

ToPath == Cwd \o << <<"file", Dot, "xlsx">> >>

DownloadFileCall(urls) ==
    /\ pc = "idle"
    /\ \E url \in urls :
         args' = [op |-> "download_file", url |-> url, to_path |-> ToPath]
    /\ pc' = "get_connection"
    /\ UNCHANGED <<spVars, outcome, credVars, taskVars, fsVars>>

(* get_connection: sharepy.connect succeeds, or fails with AuthError, which *)
(* is raised as CredentialError.                                            *)
GetConnection ==
    /\ pc = "get_connection"
    /\ \/ /\ conn' = "open"
          /\ requests' = Append(requests, Request("connect", <<>>))
          /\ pc' = IF args.op = "download_file" THEN "getfile" ELSE "fetch"
          /\ UNCHANGED outcome
       \/ /\ Finish(Raised("CredentialError"))
          /\ requests' = Append(requests, Request("connect", <<>>))
          /\ UNCHANGED conn
    /\ UNCHANGED <<args, excel_file, df, parse_calls, credVars, taskVars, fsVars>>

(* download_file after get_connection: conn.getfile(url, filename), then    *)
(* conn.close().  getfile may raise.                                        *)
DownloadFileGetFile ==
    /\ pc = "getfile"
    /\ requests' = Append(requests, Request("getfile", args.url))
    /\ \/ /\ fs' = fs \cup {args.to_path}
          /\ conn' = "closed"
          /\ Finish(Returned(NoneArg))
       \/ /\ Finish(Raised("HTTPError"))
          /\ UNCHANGED <<conn, fs>>
    /\ UNCHANGED <<args, excel_file, df, parse_calls, credVars, taskVars, fs0>>

SheetSelectors ==
    {NoneArg}
    \cup {StrArg(n) : n \in SheetNames \cup {""}}
    \cup {IntArg(i) : i \in 0..(MaxSheets - 1)}
    \cup {ListArg(SubSeq([i \in 1..MaxSheets |-> SheetNameAt(i)], 1, k)) :
            k \in 0..MaxSheets}

NaValueArgs == {NoneArg, ListArg(<<>>), ListArg(<<"x\ty">>)}

ToDfCall(urls) ==
    /\ pc = "idle"
    /\ \E url \in urls, sheet_name \in SheetSelectors,
          if_empty \in IfEmptyPolicies, tests \in BOOLEAN,
          na_values \in NaValueArgs, nrows \in BOOLEAN :
         args' = [op |-> "to_df", url |-> url, sheet_name |-> sheet_name,
                  if_empty |-> if_empty, tests |-> tests,
                  na_values |-> na_values, nrows |-> nrows]
    /\ pc' = "download_excel"
    /\ UNCHANGED <<spVars, outcome, credVars, taskVars, fsVars>>

(* _download_excel up to get_connection: the URL is classified and the      *)
(* nrows keyword is refused.                                                *)
DownloadExcelBegin ==
    /\ pc = "download_excel"
    /\ IF ~get_last_segment_from_url(args.url).ok
       THEN Finish(Raised("ValueError"))
       ELSE IF args.nrows
            THEN Finish(Raised("ValueError"))
            ELSE pc' = "get_connection" /\ UNCHANGED outcome
    /\ UNCHANGED <<args, spVars, credVars, taskVars, fsVars>>

(* What _download_excel does with the classified URL once connected:        *)
(* "raise", "get" (download and return the workbook) or "none" (the         *)
(* function ends without a return statement).                               *)
DownloadExcelDispatch(endpoint) ==
    IF endpoint.type = "file"
    THEN IF endpoint.value # XlsxExt THEN "raise" ELSE "get"
    ELSE "none"

(* _download_excel after get_connection.  conn.get(url) answers with a      *)
(* workbook, or raises.                                                     *)
DownloadExcelFetch(workbooks) ==
    /\ pc = "fetch"
    /\ LET d == DownloadExcelDispatch(get_last_segment_from_url(args.url))
       IN  CASE d = "raise" ->
                  /\ Finish(Raised("ValueError"))
                  /\ UNCHANGED <<requests, excel_file>>
             [] d = "get" ->
                  /\ requests' = Append(requests, Request("get", args.url))
                  /\ \/ /\ \E wb \in workbooks :
                             excel_file' = [k |-> "excel", v |-> wb]
                        /\ pc' = "parse"
                        /\ UNCHANGED outcome
                     \/ /\ Finish(Raised("HTTPError"))
                        /\ UNCHANGED excel_file
             [] d = "none" ->
                  /\ excel_file' = NoneArg
                  /\ pc' = "parse"
                  /\ UNCHANGED <<requests, outcome>>
    /\ UNCHANGED <<args, conn, df, parse_calls, credVars, taskVars, fsVars>>

(* to_df, lines 223-242: the selected sheet, or every sheet. *)
ToDfParse ==
    /\ pc = "parse"
    /\ LET sel == args.sheet_name
           na == NaUsed(args.na_values)
           wb == excel_file.v
       IN  IF excel_file.k = "none"
           THEN \* None has no parse / sheet_names
                /\ Finish(Raised("AttributeError"))
                /\ UNCHANGED <<df, parse_calls>>
           ELSE IF SelectorGiven(sel)
           THEN /\ parse_calls' = Append(parse_calls, ParseCall(sel, na))
                /\ IF sel.k = "list"
                   THEN IF \A i \in 1..Len(sel.v) :
                              SheetIndex(wb, StrArg(sel.v[i])) # 0
                        THEN \* parse returns a dict of tables
                             /\ df' = DictOfFrames
                             /\ pc' = "handle_empty"
                             /\ UNCHANGED outcome
                        ELSE /\ Finish(Raised("ValueError"))
                             /\ UNCHANGED df
                   ELSE IF SheetIndex(wb, sel) # 0
                        THEN /\ df' = SetColumn(ParseSheet(wb[SheetIndex(wb, sel)], na),
                                                "sheet_name", TagCell(sel), TagDtype(sel))
                             /\ pc' = "handle_empty"
                             /\ UNCHANGED outcome
                        ELSE /\ Finish(Raised("ValueError"))
                             /\ UNCHANGED df
           ELSE /\ parse_calls' = parse_calls \o AllSheetsCalls(wb, na)
                /\ df' = AllSheetsFrame(wb, na)
                /\ pc' = "handle_empty"
                /\ UNCHANGED outcome
    /\ UNCHANGED <<args, conn, requests, excel_file, credVars, taskVars, fsVars>>

(* to_df, lines 244-250 *)
ToDfHandleEmpty ==
    /\ pc = "handle_empty"
    /\ IF IsDict(df)
       THEN \* a dict has no attribute `empty`
            Finish(Raised("AttributeError"))
       ELSE LET g == EmptyGate(df, args.if_empty)
            IN  CASE g.next = "return_empty" ->
                       Finish(Returned(add_viadot_metadata_columns(EmptyFrame)))
                  [] g.next = "raise" -> Finish(Raised(g.error))
                  [] g.next = "continue" -> pc' = "finish" /\ UNCHANGED outcome
    /\ UNCHANGED <<args, spVars, credVars, taskVars, fsVars>>

(* to_df, lines 252-257: cleanup, the optional validation (which may        *)
(* raise), the conversion to text.                                          *)
ToDfResult(frame) ==
    add_viadot_metadata_columns(convert_all_to_string_type(cleanup_df(frame)))

ToDfFinish ==
    /\ pc = "finish"
    /\ \/ Finish(Returned(ToDfResult(df)))
       \/ /\ args.tests
          /\ Finish(Raised("ValidationError"))
    /\ UNCHANGED <<args, spVars, credVars, taskVars, fsVars>>


----------------------------------------------------------------------------
(* Credentials *)

SharepointFields == {"site", "username", "password"}
MindfulFields == {"customer_uuid", "auth_token"}

Lookup(source, name, result) ==
    [source |-> source, name |-> name, found |-> Truthy(result)]

KeyArgs == {NoneArg, StrArg(""), StrArg("mindful")}
SecretArgs == {NoneArg, StrArg("kv-secret")}

(* What get_source_credentials(config_key) can answer: nothing, or the      *)
(* record stored under the key.                                             *)
ConfigResults(config_key, stored) ==
    {NoneArg} \cup (IF Truthy(config_key) THEN stored ELSE {})

(* Sharepoint.__init__, line 93:                                            *)
(* credentials or get_source_credentials(config_key) or {}                  *)
SharepointResolve(creds, config_key, configured) ==
    IF Truthy(creds)
    THEN [value |-> creds, source |-> "explicit", lookups |-> <<>>]
    ELSE [value |-> Or(configured, DictArg({}, {})),
          source |-> IF Truthy(configured) THEN "config" ELSE "none",
          lookups |-> <<Lookup("config", config_key, configured)>>]

(* SharepointCredentials.is_configured: site and username and password *)
is_configured(creds) == SharepointFields \subseteq creds.filled

SharepointCredArgs ==
    {NoneArg, DictArg({}, {}), DictArg({"site"}, {}), DictArg({"site"}, {"site"}),
     DictArg(SharepointFields, {"site", "username"}),
     DictArg(SharepointFields, SharepointFields)}

(* Sharepoint(credentials, config_key) *)
SharepointInit ==
    /\ pc = "idle"
    /\ \E creds \in SharepointCredArgs, config_key \in KeyArgs :
        \E configured \in ConfigResults(config_key,
                             {DictArg({"site"}, {"site"}),
                              DictArg(SharepointFields, {"site", "username"}),
                              DictArg(SharepointFields, SharepointFields)}) :
          LET r == SharepointResolve(creds, config_key, configured)
          IN  /\ args' = [op |-> "Sharepoint", credentials |-> creds,
                          config_key |-> config_key]
              /\ lookups' = r.lookups
              /\ IF is_configured(r.value)
                 THEN /\ credentials' = [value |-> r.value, source |-> r.source]
                      /\ Finish(Returned(r.value))
                 ELSE /\ UNCHANGED credentials
                      /\ Finish(Raised("CredentialError"))
    /\ UNCHANGED <<spVars, taskVars, fsVars>>

----------------------------------------------------------------------------
(* The task engine: @task(retries=3, retry_delay_seconds=10,                *)
(* timeout_seconds=60 * 60)                                                 *)

retries == 3
retry_delay_seconds == 10
timeout_seconds == 3600

Running(start) == [start |-> start, end |-> -1, error |-> "running"]

FirstStep(op) == IF op = "mindful_to_df" THEN "mdf_resolve" ELSE "mtf_body"

(* A failed run is retried while the task has retries left. *)
RetryAllowedOnceMore(run_count) == run_count <= retries + 1

RetryAllowed(run_count) == run_count <= retries

(* The delay before the retry that follows the run_count-th run. *)
RetryDelay(run_count) == retry_delay_seconds

(* The end of one run of the task body, d seconds after it started. *)
EndRun(ok, error, value, d) ==
    /\ clock' = clock + d
    /\ attempts' = [attempts EXCEPT ![Len(attempts)] =
                      [@ EXCEPT !.end = clock + d,
                                !.error = IF ok THEN "" ELSE error]]
    /\ UNCHANGED runs
    /\ IF ok
       THEN Finish(Returned(value))
       ELSE IF RetryAllowed(runs)
            THEN pc' = "awaiting_retry" /\ UNCHANGED outcome
            ELSE Finish(Raised(error))

BodyTimes == 0..MaxBodyTime

TaskRetry ==
    /\ pc = "awaiting_retry"
    /\ clock' = clock + RetryDelay(runs)
    /\ runs' = runs + 1
    /\ attempts' = Append(attempts, Running(clock'))
    /\ pc' = FirstStep(args.op)
    /\ lookups' = <<>>
    /\ credentials' = NoCredentials
    /\ UNCHANGED <<args, spVars, outcome, fsVars>>

----------------------------------------------------------------------------
(* mindful_to_df *)

MindfulCredArgs ==
    {NoneArg, DictArg({}, {}), DictArg(MindfulFields, {}),
     DictArg(MindfulFields, MindfulFields)}
EndpointArgs == {NoneArg, StrArg("responses")}

MindfulToDfCall ==
    /\ pc = "idle"
    /\ \E creds \in MindfulCredArgs, config_key \in KeyArgs,
          secret \in SecretArgs, endpoint \in EndpointArgs :
         args' = [op |-> "mindful_to_df", credentials |-> creds,
                  config_key |-> config_key,
                  azure_key_vault_secret |-> secret, endpoint |-> endpoint]
    /\ runs' = 1
    /\ attempts' = <<Running(clock)>>
    /\ pc' = "mdf_resolve"
    /\ UNCHANGED <<spVars, outcome, credVars, clock, fsVars>>

(* line 52: no source of credentials at all *)
NoSourceGiven(a) ==
    ~(Truthy(a.azure_key_vault_secret) \/ Truthy(a.config_key)
        \/ Truthy(a.credentials))

(* line 54: is get_credentials(azure_key_vault_secret) called? *)
SecretLookedUp(a) == ~Truthy(a.credentials)

(* What get_credentials(secret) can answer: the stored record, nothing, or  *)
(* an error.                                                                *)
SecretResults(secret) ==
    {NoneArg} \cup (IF Truthy(secret) THEN {DictArg(MindfulFields, MindfulFields)} ELSE {})

(* mindful_to_df, lines 52-54 *)
MindfulResolve ==
    /\ pc = "mdf_resolve"
    /\ IF NoSourceGiven(args)
       THEN /\ \E d \in BodyTimes :
                 EndRun(FALSE, "MissingSourceCredentialsError", NoneArg, d)
            /\ UNCHANGED credVars
       ELSE IF SecretLookedUp(args)
       THEN \/ /\ \E found \in SecretResults(args.azure_key_vault_secret) :
                    /\ lookups' = Append(lookups,
                          Lookup("secret", args.azure_key_vault_secret, found))
                    /\ credentials' =
                          [value |-> found,
                           source |-> IF Truthy(found) THEN "secret" ELSE "none"]
               /\ pc' = "mdf_construct"
               /\ UNCHANGED <<outcome, taskVars>>
            \/ /\ lookups' = Append(lookups,
                      Lookup("secret", args.azure_key_vault_secret, NoneArg))
               /\ UNCHANGED credentials
               /\ \E d \in BodyTimes : EndRun(FALSE, "SecretError", NoneArg, d)
       ELSE /\ credentials' = [value |-> args.credentials, source |-> "explicit"]
            /\ pc' = "mdf_construct"
            /\ UNCHANGED <<lookups, outcome, taskVars>>
    /\ UNCHANGED <<args, spVars, fsVars>>

(* The constructor of the Mindful source: the credentials it is given, or   *)
(* else those stored under config_key; a credential error when neither.     *)
MindfulInit(creds, config_key, configured) ==
    IF Truthy(creds.value)
    THEN [value |-> creds.value, source |-> creds.source, lookups |-> <<>>]
    ELSE [value |-> configured,
          source |-> IF Truthy(configured) THEN "config" ELSE "none",
          lookups |-> <<Lookup("config", config_key, configured)>>]

(* mindful_to_df, lines 56-66: the default endpoint, Mindful(...) *)
MindfulConstruct ==
    /\ pc = "mdf_construct"
    /\ \E configured \in ConfigResults(args.config_key,
                                      {DictArg(MindfulFields, MindfulFields)}) :
         LET r == MindfulInit(credentials, args.config_key, configured)
         IN  /\ lookups' = lookups \o r.lookups
             /\ credentials' = [value |-> r.value, source |-> r.source]
             /\ IF Truthy(r.value)
                THEN pc' = "mdf_fetch" /\ UNCHANGED <<outcome, taskVars>>
                ELSE \E d \in BodyTimes :
                        EndRun(FALSE, "CredentialError", NoneArg, d)
    /\ UNCHANGED <<args, spVars, fsVars>>

Endpoint(a) == IF a.endpoint.k = "none" THEN "surveys" ELSE a.endpoint.v

(* mindful_to_df, lines 67-74: api_connection and to_df; the request may    *)
(* fail, or run into the timeout of the task.                               *)
MindfulFetch ==
    /\ pc = "mdf_fetch"
    /\ \/ \E d \in BodyTimes :
             EndRun(TRUE, "", [k |-> "frame", endpoint |-> Endpoint(args)], d)
       \/ \E d \in BodyTimes : EndRun(FALSE, "APIError", NoneArg, d)
       \/ EndRun(FALSE, "TimeoutError", NoneArg, timeout_seconds)
    /\ UNCHANGED <<args, spVars, credVars, fsVars>>

----------------------------------------------------------------------------
(* mindful_to_file *)

(* Path.suffix: the text of the last name from its last dot on, unless that *)
(* dot is the first or the last character of the name.                      *)
Suffix(path) ==
    LET name == path[Len(path)]
        d == LastDot(name)
    IN  IF d > 1 /\ d < Len(name) THEN SubSeq(name, d, Len(name)) ELSE <<>>

Parent(path) == SubSeq(path, 1, Len(path) - 1)

(* parent.mkdir(parents=True) *)
Ancestors(path) == {SubSeq(path, 1, k) : k \in 0..Len(path)}

DefaultFileName == <<"mindful_response_now", Dot, "csv">>

(* lines 102-110 *)
ResolvePath(path) ==
    IF path.k = "none" THEN Cwd \o <<DefaultFileName>>
    ELSE IF path.abs THEN path.v ELSE Cwd \o path.v

CsvSuffix == <<Dot, "csv">>
ParquetSuffix == <<Dot, "parquet">>

SupportedSuffix(path) == Suffix(path) \in {CsvSuffix, ParquetSuffix}

(* lines 112-120: the filesystem after the body ran on the resolved path *)
WriteEffect(path, files) ==
    LET made == IF Parent(path) \notin files
                THEN files \cup Ancestors(Parent(path))
                ELSE files
    IN  IF SupportedSuffix(path) THEN made \cup {path} ELSE made

DirNames == { <<"home">>, <<"out">> }
FileNames ==
    { <<"data", Dot, "csv">>, <<"data", Dot, "parquet">>, <<"data", Dot, "txt">>,
      <<"data">>, <<Dot, "csv">>, <<"data", Dot>> }

PathArgs ==
    {NoneArg} \cup
    { [k |-> "path", abs |-> a, v |-> Append(dirs, file)] :
        a \in BOOLEAN, dirs \in SeqsUpTo(DirNames, MaxDepth - 1),
        file \in FileNames }

MindfulToFileCall ==
    /\ pc = "idle"
    /\ \E path \in PathArgs, sep \in {"\t", ","} :
         args' = [op |-> "mindful_to_file", path |-> path, sep |-> sep]
    /\ runs' = 1
    /\ attempts' = <<Running(clock)>>
    /\ pc' = "mtf_body"
    /\ UNCHANGED <<spVars, outcome, credVars, clock, fsVars>>

(* mindful_to_file, lines 100-124 *)
MindfulToFileBody ==
    /\ pc = "mtf_body"
    /\ LET path == ResolvePath(args.path)
       IN  /\ fs' = WriteEffect(path, fs)
           /\ \E d \in BodyTimes :
                IF SupportedSuffix(path)
                THEN EndRun(TRUE, "", [k |-> "path", abs |-> TRUE, v |-> path], d)
                ELSE EndRun(FALSE, "ValueError", NoneArg, d)
    /\ UNCHANGED <<args, spVars, credVars, fs0>>

----------------------------------------------------------------------------
(* Specifications *)

TableUrls == { << <<"reports">>, <<"report", Dot, "xlsx">> >>, << <<"reports">> >> }

Next ==
    \/ SharepointInit
    \/ DownloadFileCall(Urls)
    \/ ToDfCall(Urls)
    \/ GetConnection
    \/ DownloadFileGetFile
    \/ DownloadExcelBegin
    \/ DownloadExcelFetch(SmallWorkbooks)
    \/ ToDfParse
    \/ ToDfHandleEmpty
    \/ ToDfFinish
    \/ MindfulToDfCall
    \/ MindfulResolve
    \/ MindfulConstruct
    \/ MindfulFetch
    \/ MindfulToFileCall
    \/ MindfulToFileBody
    \/ TaskRetry

Spec == Init /\ [][Next]_vars

(* to_df alone, over every workbook of the bounds. *)
NextTable ==
    \/ ToDfCall(TableUrls)
    \/ DownloadExcelBegin
    \/ GetConnection
    \/ DownloadExcelFetch(Workbooks)
    \/ ToDfParse
    \/ ToDfHandleEmpty
    \/ ToDfFinish

InitTable == Init /\ fs = {Root, Cwd}

SpecTable == InitTable /\ [][NextTable]_vars


----------------------------------------------------------------------------
(* Properties *)

IsToDf == args.op = "to_df"
IsTask == args.op \in {"mindful_to_df", "mindful_to_file"}

(* to_df assembled a table (the parse step ended without an error). *)
Assembled == IsToDf /\ ~IsDict(df) /\ df.columns # <<>>

IsXlsxFile(url) ==
    LET e == get_last_segment_from_url(url)
    IN  e.ok /\ e.type = "file" /\ e.value = XlsxExt

(* C1: when download_file or to_df has returned or raised, the session it   *)
(* opened is closed.                                                        *)
C1_SessionClosedOnExit ==
    (pc = "done" /\ args.op \in {"download_file", "to_df"}) => conn # "open"

(* C2: when mindful_to_file has raised ValueError for an unsupported        *)
(* suffix, the filesystem is as it was when the task was called.            *)
C2_NoWriteBeforeSuffixError ==
    (args.op = "mindful_to_file"
        /\ \E i \in 1..Len(attempts) : attempts[i].error = "ValueError")
    => fs = fs0

(* C3 as stated: the body of a feedback task runs at most 3 times in all.   *)
C3_AtMostThreeRuns == IsTask => runs <= 3

(* C3, amended: the body runs at most retries + 1 = 4 times; a run other    *)
(* than the first starts retry_delay_seconds after a failed run ended; and  *)
(* an error reaches the caller only when the last of the 4 runs failed, and *)
(* it is the error of that run.                                             *)
C3_AtMostFourRuns ==
    IsTask =>
        /\ runs <= retries + 1
        /\ Len(attempts) = runs
        /\ \A i \in 2..Len(attempts) :
              /\ attempts[i - 1].error \notin {"", "running"}
              /\ attempts[i].start - attempts[i - 1].end = retry_delay_seconds
        /\ (pc = "done" /\ attempts[Len(attempts)].error # "") =>
              /\ runs = retries + 1
              /\ outcome = Raised(attempts[Len(attempts)].error)
        /\ (pc = "done" /\ outcome.kind = "raised") =>
              attempts[Len(attempts)].error # ""

C3_Witness ==
    /\ IsTask
    /\ pc = "done"
    /\ runs = 4
    /\ outcome.kind = "raised"
    /\ \A i \in 1..4 : attempts[i].error \notin {"", "running"}

(* C4: _download_excel returns to to_df only with a workbook, and only for  *)
(* a URL classified as a file with extension .xlsx; for any other URL no    *)
(* download request is issued.                                              *)
C4_WorkbookOrErrorBeforeDownload ==
    IsToDf =>
        /\ pc \in {"parse", "handle_empty", "finish"} =>
              excel_file.k = "excel" /\ IsXlsxFile(args.url)
        /\ ~IsXlsxFile(args.url) =>
              \A i \in 1..Len(requests) : requests[i].kind # "get"

(* C5: explicit credentials, then the configuration lookup, then the secret *)
(* lookup: no lookup when explicit credentials are given; no secret lookup  *)
(* when they are absent and a config key is given; a secret lookup only     *)
(* after a configuration lookup that found nothing.                         *)
C5_ExplicitThenConfigThenSecret ==
    args.op \in {"Sharepoint", "mindful_to_df"} =>
        /\ Truthy(args.credentials) => lookups = <<>>
        /\ (~Truthy(args.credentials) /\ Truthy(args.config_key)) =>
              \A i \in 1..Len(lookups) : lookups[i].source # "secret"
        /\ \A i \in 1..Len(lookups) :
              lookups[i].source = "secret" =>
                 /\ ~Truthy(args.credentials)
                 /\ \E j \in 1..(i - 1) :
                       lookups[j].source = "config" /\ ~lookups[j].found

(* C6: with a sheet name, a sheet index or a list of sheets, to_df parses   *)
(* the selected sheets only and tags the rows with the selector; it parses  *)
(* every sheet only when sheet_name is None.                                *)
NamesASelection(sel, wb) ==
    CASE sel.k = "none" -> TRUE
      [] sel.k = "list" -> TRUE
      [] sel.k = "str" -> \E i \in 1..Len(wb) : wb[i].name = sel.v
      [] sel.k = "int" -> sel.v \in 0..(Len(wb) - 1)

C6_OnlySelectedSheetsParsed ==
    (IsToDf /\ pc \in {"handle_empty", "finish"}
        /\ NamesASelection(args.sheet_name, excel_file.v)) =>
        IF args.sheet_name.k = "none"
        THEN parse_calls = AllSheetsCalls(excel_file.v, NaUsed(args.na_values))
        ELSE /\ Len(parse_calls) = 1
             /\ parse_calls[1].sheet_name = args.sheet_name
             /\ ~IsDict(df)
             /\ \A i \in 1..Len(df.rows) :
                   df.rows[i]["sheet_name"] = TagCell(args.sheet_name)

(* C7 as stated: an empty assembled table is handled by the policy: under  *)
(* "warn" the call does not raise and returns a table with zero rows,       *)
(* "fail" raises, "skip" returns an empty table without raising; a table    *)
(* with rows gives the same result under every policy.                      *)
C7_WarnNeverRaises ==
    (Assembled /\ pc = "done") =>
        IF Len(df.rows) = 0
        THEN CASE args.if_empty = "warn" ->
                    outcome.kind = "returned" /\ Len(outcome.value.rows) = 0
               [] args.if_empty = "fail" -> outcome = Raised("ValueError")
               [] args.if_empty = "skip" ->
                    outcome.kind = "returned" /\ Len(outcome.value.rows) = 0
        ELSE \/ outcome = Returned(ToDfResult(df))
             \/ args.tests /\ outcome = Raised("ValidationError")

(* C7, amended: under "warn" the policy does not raise: the call returns    *)
(* the converted table with zero rows, or, when the caller gave tests and   *)
(* the validation fails, raises the validation error; "fail" raises;        *)
(* "skip" returns an empty table without raising, validation or not; a      *)
(* table with rows gives the same result under every policy.                *)
C7_EmptyPolicy ==
    (Assembled /\ pc = "done") =>
        IF Len(df.rows) = 0
        THEN CASE args.if_empty = "warn" ->
                    \/ /\ outcome = Returned(ToDfResult(df))
                       /\ Len(outcome.value.rows) = 0
                    \/ args.tests /\ outcome = Raised("ValidationError")
               [] args.if_empty = "fail" -> outcome = Raised("ValueError")
               [] args.if_empty = "skip" ->
                    /\ outcome = Returned(add_viadot_metadata_columns(EmptyFrame))
                    /\ Len(outcome.value.rows) = 0
        ELSE \/ outcome = Returned(ToDfResult(df))
             \/ args.tests /\ outcome = Raised("ValidationError")

C7_Witness ==
    /\ Assembled
    /\ pc = "done"
    /\ Len(df.rows) = 0
    /\ args.if_empty = "warn"
    /\ args.tests
    /\ outcome.kind = "returned"
    /\ Len(outcome.value.rows) = 0
    /\ "sheet_name" \in Range(outcome.value.columns)

(* The cells of the returned table that come from the assembled table. *)
Converted == Assembled /\ pc = "done" /\ outcome.kind = "returned"

ConvertedColumns == Range(outcome.value.columns) \cap Range(df.columns)

AllMissing(c) == \A i \in 1..Len(df.rows) : IsNull(df.rows[i][c])

(* C8 as stated: in the returned table every cell that was not missing is   *)
(* text, every missing cell is None, and a column of missing values only    *)
(* has the string type.                                                     *)
C8_MissingIsNone ==
    Converted =>
        \A c \in ConvertedColumns :
            /\ \A i \in 1..Len(outcome.value.rows) :
                  IF IsNull(df.rows[i][c])
                  THEN outcome.value.rows[i][c] = NoneCell
                  ELSE outcome.value.rows[i][c].t = "str"
            /\ AllMissing(c) => outcome.value.dtypes[c] = "string"

(* C8, amended: every cell that was not missing is text; every missing cell *)
(* is an absent marker and never the text "nan": None, or pd.NA in a column *)
(* of missing values only; and such a column has the string type.           *)
C8_TextOrAbsentMarker ==
    Converted =>
        /\ \A c \in Range(outcome.value.columns) :
              \A i \in 1..Len(outcome.value.rows) :
                  outcome.value.rows[i][c].t \in {"str", "none", "na"}
        /\ \A c \in ConvertedColumns :
              /\ \A i \in 1..Len(outcome.value.rows) :
                    IF IsNull(df.rows[i][c])
                    THEN outcome.value.rows[i][c] =
                            (IF AllMissing(c) THEN NACell ELSE NoneCell)
                    ELSE outcome.value.rows[i][c].t = "str"
              /\ AllMissing(c) => outcome.value.dtypes[c] = "string"

C8_Witness ==
    /\ Converted
    /\ Len(df.rows) = 2
    /\ AllMissing("v")
    /\ outcome.value.dtypes["v"] = "string"
    /\ \A i \in 1..2 :
          /\ outcome.value.rows[i]["v"] = NACell
          /\ outcome.value.rows[i]["sheet_name"].t = "str"

(* C9: every call of the sheet parser gets the caller's list of markers     *)
(* when the caller gave a list, and the default markers when na_values is   *)
(* None.                                                                    *)
C9_CallerMarkersReplaceDefaults ==
    IsToDf =>
        \A i \in 1..Len(parse_calls) :
            parse_calls[i].na_values =
                (IF args.na_values.k = "list" THEN Range(args.na_values.v)
                 ELSE DEFAULT_NA_VALUES)

(* C10: with sheet_name = None the returned table has as many rows as the   *)
(* sheets of the workbook have together, and its sheet_name column holds    *)
(* the name of the first sheet for each of its rows, then that of the       *)
(* second for each of its rows, and so on.                                  *)
ExpectedTags(wb) ==
    Flatten([i \in 1..Len(wb) |->
               [j \in 1..Len(wb[i].cells) |-> StrCell(wb[i].name)]])

C10_AllSheetsInWorkbookOrder ==
    (IsToDf /\ pc = "done" /\ outcome.kind = "returned"
        /\ args.sheet_name.k = "none") =>
        /\ Len(outcome.value.rows) = Len(ExpectedTags(excel_file.v))
        /\ Len(outcome.value.rows) =
              SumSeq([i \in 1..Len(excel_file.v) |-> Len(excel_file.v[i].cells)])
        /\ \A i \in 1..Len(outcome.value.rows) :
              outcome.value.rows[i]["sheet_name"] = ExpectedTags(excel_file.v)[i]

C10_Witness ==
    /\ IsToDf
    /\ pc = "done"
    /\ outcome.kind = "returned"
    /\ args.sheet_name.k = "none"
    /\ Len(excel_file.v) = 2
    /\ \A i \in 1..2 : Len(excel_file.v[i].cells) = 1
    /\ Len(outcome.value.rows) = 2

====
